---- MODULE Spec2Model ----
(***************************************************************************)
(* A model of the creativemate-app bridging layer:                         *)
(*   - the express router of src/routes/pythonRoutes.ts (POST /prompt,     *)
(*     /transcribe-audio, /upload-document) and the /prompt-audio route of *)
(*     the earlier router file, each request owning one python child;      *)
(*   - the Electron main process of src/main.ts (createWindow, the app     *)
(*     events and the server it starts).                                   *)
(* Spec is the HTTP side, AppSpec the Electron side.                       *)
(* HealthSpec is GET /health beside the requests of one other route, and   *)
(* ConcSpec is the router with several requests in flight at once.         *)
(***************************************************************************)
EXTENDS Integers, Sequences, FiniteSets, TLC

VARIABLES
  serverAlive,   \* the Node process serving HTTP has not died of an uncaught exception
  request,       \* slot -> the request being handled there (NoRequest: the slot is free)
  res,           \* slot -> the express response object of that request
  proc,          \* slot -> the child process spawned for that request
  acc,           \* slot -> the handler's local accumulators (output, errorOutput)
  clientGone,    \* slot -> the client's connection has closed before the response ended
  platform,      \* process.platform of the Electron main process
  appState,      \* "launching" (before 'ready'), "running", "quit", "crashed"
  servers,       \* the ElectronServer instances constructed so far, in order
  electronServer,\* main.ts's electronServer: an index into servers, 0 while unassigned
  serverPort,    \* main.ts's serverPort: 0 while unassigned
  windows,       \* the number of open BrowserWindows
  portRead,      \* what the last get-server-port call returned (NotRead: none yet)
  urlRead,       \* what the last get-server-url call returned (NotRead: none yet)
  micAccess,     \* what the last request-microphone-access call did and returned
  now,           \* the system clock, in milliseconds
  health         \* the responses of the GET /health requests answered so far, latest last

httpVars == <<serverAlive, request, res, proc, acc, clientGone>>

appVars ==
  <<platform, appState, servers, electronServer, serverPort, windows, portRead, urlRead,
    micAccess>>

healthVars == <<now, health>>

vars == <<httpVars, appVars, healthVars>>

(***************************************************************************)
(* Bounds of the model.                                                    *)
(***************************************************************************)
MaxReq == 1       \* requests in flight at once (slots are reused for later requests)
MaxChunks == 2    \* 'data' events (stdout and stderr together) one child delivers
MaxServers == 3   \* createWindow calls in one run of the application
MaxClock == 3     \* milliseconds the system clock advances in one run
MaxConc == 2      \* requests in flight at once where requests run concurrently

Slots == 1..MaxReq

(***************************************************************************)
(* Program constants: multer's fileSize limits, in MiB.                    *)
(***************************************************************************)
UploadFileSize == 10
DocumentFileSize == 20
AudioFileSize == 10

\* The code a 'close' event carries for a child ended by a signal (JavaScript null).
NullCode == -1
\* The code a 'close' event carries after a failed spawn: the negated errno (ENOENT).
EnoentCode == -2

(***************************************************************************)
(* Request inputs.  A multipart form: text fields and at most one file.    *)
(***************************************************************************)
NoField == "<undefined>"
NoFile == [size |-> 0, mimetype |-> "", originalname |-> ""]
NoRequest == [endpoint |-> "none"]

FileSizes == {10, 11, 20, 21}   \* MiB: at and just over each limit

Files(mimes) ==
  {[size |-> s, mimetype |-> m, originalname |-> "x"] : s \in FileSizes, m \in mimes}

PromptValues == {"", "hi"}
ImagesValues == {NoField, "[]", "[\"i\"]", "{bad"}
MessagesValues == {NoField, "[\"m1\",\"m2\"]", "{bad"}

PromptRequests ==
  {[endpoint |-> "/prompt", prompt |-> p, images |-> i, messages |-> m, file |-> f] :
      p \in PromptValues, i \in ImagesValues, m \in MessagesValues,
      f \in {NoFile} \cup Files({"audio/webm"})}

\* /prompt-audio runs the same validation code as /prompt: fewer field values.
PromptAudioRequests ==
  {[endpoint |-> "/prompt-audio", prompt |-> p, images |-> i, messages |-> NoField,
    file |-> f] :
      p \in PromptValues, i \in {NoField, "{bad"},
      f \in {NoFile} \cup {g \in Files({"audio/webm"}) : g.size <= 11}}

TranscribeRequests ==
  {[endpoint |-> "/transcribe-audio", file |-> f] :
      f \in {NoFile} \cup Files({"audio/webm"})}

UploadRequests ==
  {[endpoint |-> "/upload-document", file |-> f] :
      f \in {NoFile} \cup Files({"application/pdf", "text/plain"})}

(***************************************************************************)
(* JSON.parse on the text of a form field: the value, or a SyntaxError.    *)
(***************************************************************************)
JsonParse(s) ==
  CASE s = "[]" -> [ok |-> TRUE, value |-> <<>>]
    [] s = "[\"i\"]" -> [ok |-> TRUE, value |-> <<"i">>]
    [] s = "[\"m1\",\"m2\"]" -> [ok |-> TRUE, value |-> <<"m1", "m2">>]
    [] OTHER -> [ok |-> FALSE, value |-> <<>>]

\* req.body.f ? JSON.parse(req.body.f) : []
ParseField(s) == IF s = NoField \/ s = "" THEN [ok |-> TRUE, value |-> <<>>] ELSE JsonParse(s)

\* buffer.toString('base64') of an uploaded file's buffer
Base64(file) == [base64 |-> <<file.originalname, file.size>>]

\* JSON.stringify(inputData)
JsonStringify(obj) == [json |-> obj]

\* `data: ${JSON.stringify(event)}\n\n`: one server-sent-events message
SseFrame(event) == [kind |-> "sse", event |-> event]

\* The text of a child's k-th output chunk; odd chunks start and even ones end with a blank.
ChunkText(k) == IF k % 2 = 1 THEN <<" ", ToString(k)>> ELSE <<ToString(k), " ">>

\* The text of a child's k-th error-stream chunk.
ErrText(k) == <<"E", ToString(k)>>

(***************************************************************************)
(* The express response object.                                            *)
(***************************************************************************)
NewRes ==
  [contentType |-> "", statusCode |-> 200, headersSent |-> FALSE, ended |-> FALSE,
   body |-> <<>>, writeAfterEnd |-> FALSE, sendAfterSent |-> FALSE]

\* res.setHeader('Content-Type', 'text/event-stream') and the three headers after it
SetSseHeaders(rs) == [rs EXCEPT !.contentType = "text/event-stream"]

\* A json() that sends the body and leaves the status code as it was.
ResStatusJsonKeepsStatus(rs, code, obj) ==
  [rs EXCEPT !.contentType = IF rs.contentType = "" THEN "application/json" ELSE @,
             !.headersSent = TRUE,
             !.ended = TRUE,
             !.body = Append(@, [kind |-> "json", json |-> obj])]

\* res.status(code).json(obj): express sets Content-Type to application/json only
\* when no Content-Type header is set yet, then sends the body and ends. On a
\* response that is already sent, setting the header throws (ERR_HTTP_HEADERS_SENT)
\* and nothing more is sent.
ResStatusJson(rs, code, obj) ==
  IF rs.headersSent
    THEN [rs EXCEPT !.sendAfterSent = TRUE]
    ELSE [rs EXCEPT !.statusCode = code,
                    !.contentType = IF rs.contentType = "" THEN "application/json" ELSE @,
                    !.headersSent = TRUE,
                    !.ended = TRUE,
                    !.body = Append(@, [kind |-> "json", json |-> obj])]

\* res.write(chunk): the first write sends the headers as they are set. A write
\* after res.end() writes nothing.
ResWrite(rs, item) ==
  IF rs.ended
    THEN [rs EXCEPT !.writeAfterEnd = TRUE]
    ELSE [rs EXCEPT !.headersSent = TRUE, !.body = Append(@, item)]

\* res.end()
ResEnd(rs) == [rs EXCEPT !.headersSent = TRUE, !.ended = TRUE]

\* An error passed to next(err) (by multer, or thrown by a handler and caught by
\* express) with no error middleware mounted: express's final handler answers 500
\* with an HTML page.
DefaultErrorHandler(rs, message) ==
  [rs EXCEPT !.statusCode = 500, !.contentType = "text/html", !.headersSent = TRUE,
             !.ended = TRUE, !.body = Append(@, [kind |-> "html", message |-> message])]

(***************************************************************************)
(* The child process object.                                               *)
(***************************************************************************)
NoProc ==
  [state |-> "none", command |-> "", args |-> <<>>, stdin |-> <<>>, stdinEnded |-> FALSE,
   nOut |-> 0, nErr |-> 0, signalled |-> FALSE, code |-> NullCode]

\* What spawn() can do: start the child; throw (an errno node does not turn into an
\* 'error' event); or return a child whose 'error' event (ENOENT, EACCES, ...) fires
\* on the next tick.
SpawnOutcomes == {"ok", "throws", "enoent"}

\* spawn(command, args, {stdio: pipes}) that did not throw
Spawn(command, args, outcome) ==
  [NoProc EXCEPT !.state = IF outcome = "ok" THEN "running" ELSE "spawnFailed",
                 !.command = command, !.args = args]

\* spawn() threw: no child object exists
SpawnThrew(command, args) == [NoProc EXCEPT !.state = "threw", !.command = command, !.args = args]

\* pythonProcess.stdin.write(userInput); pythonProcess.stdin.end()
StdinWriteEnd(p, userInput) == [p EXCEPT !.stdin = Append(@, userInput), !.stdinEnded = TRUE]

\* pythonProcess.kill(): SIGTERM to a running child, nothing otherwise
Kill(p) == IF p.state = "running" THEN [p EXCEPT !.signalled = TRUE] ELSE p

NoAcc == [output |-> <<>>, errorOutput |-> <<>>]

\* JavaScript null inside a payload
JsNull == [null |-> TRUE]

IsBlank(c) == c = " "

\* String.prototype.trim on a text (a sequence of characters)
RECURSIVE TrimLeft(_)
TrimLeft(t) == IF t # <<>> /\ IsBlank(Head(t)) THEN TrimLeft(Tail(t)) ELSE t

RECURSIVE TrimRight(_)
TrimRight(t) ==
  IF t # <<>> /\ IsBlank(t[Len(t)]) THEN TrimRight(SubSeq(t, 1, Len(t) - 1)) ELSE t

Trim(t) == TrimRight(TrimLeft(t))

(***************************************************************************)
(* Upload validation (multer).                                             *)
(***************************************************************************)
\* A size check that is off by one MiB.
ExceedsLimitOffByOne(file, limit) == file # NoFile /\ file.size > limit + 1

\* limits.fileSize: a file larger than the limit ends the request with an error
ExceedsLimit(file, limit) == file # NoFile /\ file.size > limit

\* A file filter that accepts every content type.
FileFilterAcceptsAll(file) == TRUE

\* documentUpload's fileFilter: only application/pdf is accepted
FileFilter(file) == file.mimetype = "application/pdf"

(***************************************************************************)
(* POST /prompt (src/routes/pythonRoutes.ts).                              *)
(***************************************************************************)
\* A check that looks at the prompt alone.
NothingToProcessPromptOnly(promptInput, images, file) == promptInput = ""

\* !promptInput && images.length === 0 && !audioBuffer
NothingToProcess(promptInput, images, file) ==
  promptInput = "" /\ Len(images) = 0 /\ file = NoFile

\* An envelope that leaves the conversation history out.
PromptInputDataDropsMessages(rq, images, messages) ==
  [prompt |-> rq.prompt, images |-> images, messages |-> <<>>,
   audioBuffer |-> IF rq.file # NoFile THEN Base64(rq.file) ELSE JsNull]

PromptInputData(rq, images, messages) ==
  [prompt |-> rq.prompt, images |-> images, messages |-> messages,
   audioBuffer |-> IF rq.file # NoFile THEN Base64(rq.file) ELSE JsNull]

\* The middleware and the handler, run to the handler's return: the response and
\* the child they leave behind.
PromptRoute(rq, outcome) ==
  LET images == ParseField(rq.images)
      messages == ParseField(rq.messages)
      userInput == JsonStringify(PromptInputData(rq, images.value, messages.value))
      sse == SetSseHeaders(NewRes)
      args == <<"PYTHON_SCRIPT_PATH">>
  IN  IF ExceedsLimit(rq.file, UploadFileSize)
        THEN [res |-> DefaultErrorHandler(NewRes, "File too large"), proc |-> NoProc]
      ELSE IF ~images.ok \/ ~messages.ok
        THEN [res |-> DefaultErrorHandler(NewRes, "SyntaxError"), proc |-> NoProc]
      ELSE IF NothingToProcess(rq.prompt, images.value, rq.file)
        THEN [res |-> ResStatusJson(NewRes, 400,
                                    [error |-> "Prompt, images, or audio are required"]),
              proc |-> NoProc]
      ELSE IF outcome = "throws"
        THEN [res |-> ResStatusJson(sse, 500, [error |-> "Failed to process prompt"]),
              proc |-> SpawnThrew("PYTHON_EXECUTABLE", args)]
      ELSE [res |-> sse,
            proc |-> StdinWriteEnd(Spawn("PYTHON_EXECUTABLE", args, outcome), userInput)]

\* A handler that drops the chunk.
PromptOnStdoutDropsChunk(rs, output) == rs

\* pythonProcess.stdout.on('data'): res.write(output)
PromptOnStdout(rs, output) == ResWrite(rs, [kind |-> "raw", text |-> output])

\* A handler that forwards the error stream to the client.
PromptOnStderrWritesToClient(rs, data) == ResWrite(rs, [kind |-> "raw", text |-> data])

\* pythonProcess.stderr.on('data'): console.error only
PromptOnStderr(rs, data) == rs

\* A complete event that does not carry the child's exit code.
CompleteEventWithoutCode(code) == [type |-> "complete", code |-> 0]

\* the 'complete' event of the 'close' handlers
CompleteEvent(code) == [type |-> "complete", code |-> code]

\* pythonProcess.on('close'): write the complete event, end the response
PromptOnClose(rs, code) == ResEnd(ResWrite(rs, SseFrame(CompleteEvent(code))))

(***************************************************************************)
(* POST /prompt-audio (the earlier router file).                           *)
(***************************************************************************)
PromptAudioInputData(rq, images, messages) ==
  [prompt |-> rq.prompt, images |-> images, messages |-> messages,
   audio |-> IF rq.file # NoFile THEN Base64(rq.file) ELSE JsNull]

\* `'${JSON.stringify(inputData).replace(/"/g, '\\"')}'`: the payload as an argument
ShellQuoted(json) == [quoted |-> [escaped |-> json]]

PromptAudioRoute(rq, outcome) ==
  LET images == ParseField(rq.images)
      messages == ParseField(rq.messages)
      userInput ==
        ShellQuoted(JsonStringify(PromptAudioInputData(rq, images.value, messages.value)))
      sse == SetSseHeaders(NewRes)
      args == <<"PYTHON_SCRIPT_PATH", userInput>>
  IN  IF ExceedsLimit(rq.file, UploadFileSize)
        THEN [res |-> DefaultErrorHandler(NewRes, "File too large"), proc |-> NoProc]
      ELSE IF ~images.ok \/ ~messages.ok
        THEN [res |-> DefaultErrorHandler(NewRes, "SyntaxError"), proc |-> NoProc]
      ELSE IF NothingToProcess(rq.prompt, images.value, rq.file)
        THEN [res |-> ResStatusJson(NewRes, 400,
                                    [error |-> "Prompt, images, or audio are required"]),
              proc |-> NoProc]
      ELSE IF outcome = "throws"
        THEN [res |-> ResStatusJson(sse, 500, [error |-> "Failed to process audio prompt"]),
              proc |-> SpawnThrew("python3", args)]
      ELSE [res |-> sse, proc |-> Spawn("python3", args, outcome)]

\* pythonProcess.stdout.on('data'): one chunk event per 'data' event
PromptAudioOnStdout(rs, output) ==
  ResWrite(rs, SseFrame([type |-> "chunk", content |-> output]))

PromptAudioOnClose(rs, code) == ResEnd(ResWrite(rs, SseFrame(CompleteEvent(code))))

\* pythonProcess.on('error'): write an error event, end the response
PromptAudioOnError(rs, message) ==
  ResEnd(ResWrite(rs, SseFrame([type |-> "error", content |-> message])))

(***************************************************************************)
(* POST /transcribe-audio.                                                 *)
(***************************************************************************)
TranscribeRoute(rq, outcome) ==
  LET userInput == JsonStringify([audio_to_transcribe |-> Base64(rq.file)])
      args == <<"PYTHON_SCRIPT_PATH">>
  IN  IF ExceedsLimit(rq.file, AudioFileSize)
        THEN [res |-> DefaultErrorHandler(NewRes, "File too large"), proc |-> NoProc]
      ELSE IF rq.file = NoFile
        THEN [res |-> ResStatusJson(NewRes, 400, [error |-> "No audio file provided"]),
              proc |-> NoProc]
      ELSE IF outcome = "throws"
        THEN [res |-> ResStatusJson(NewRes, 500,
                        [error |-> "Failed to process audio transcription",
                         details |-> "spawn"]),
              proc |-> SpawnThrew("python3", args)]
      ELSE [res |-> NewRes,
            proc |-> StdinWriteEnd(Spawn("python3", args, outcome), userInput)]

\* A 'close' handler whose failure details are always the accumulated output.
TranscribeOnCloseDetailsFromOutput(rs, a, code) ==
  IF code = 0
    THEN ResStatusJson(rs, rs.statusCode,
                       [success |-> TRUE, transcribedText |-> Trim(a.output)])
    ELSE ResStatusJson(rs, 500,
                       [success |-> FALSE, error |-> "Failed to transcribe audio",
                        details |-> a.output])

\* pythonProcess.on('close') of /transcribe-audio
TranscribeOnClose(rs, a, code) ==
  IF code = 0
    THEN ResStatusJson(rs, rs.statusCode,
                       [success |-> TRUE, transcribedText |-> Trim(a.output)])
    ELSE ResStatusJson(rs, 500,
                       [success |-> FALSE, error |-> "Failed to transcribe audio",
                        details |-> IF a.errorOutput # <<>> THEN a.errorOutput ELSE a.output])

\* pythonProcess.on('error') of /transcribe-audio
TranscribeOnError(rs, message) ==
  ResStatusJson(rs, 500, [success |-> FALSE, error |-> "Failed to start audio transcription",
                          details |-> message])

(***************************************************************************)
(* POST /upload-document.                                                  *)
(***************************************************************************)
UploadRoute(rq, outcome) ==
  LET userInput ==
        JsonStringify([document_to_ingest |->
                         [content |-> Base64(rq.file), filename |-> rq.file.originalname,
                          size |-> rq.file.size]])
      args == <<"PYTHON_SCRIPT_PATH">>
  IN  IF rq.file # NoFile /\ ~FileFilter(rq.file)
        THEN [res |-> DefaultErrorHandler(NewRes, "Only PDF files are allowed"),
              proc |-> NoProc]
      ELSE IF ExceedsLimit(rq.file, DocumentFileSize)
        THEN [res |-> DefaultErrorHandler(NewRes, "File too large"), proc |-> NoProc]
      ELSE IF rq.file = NoFile
        THEN [res |-> ResStatusJson(NewRes, 400, [error |-> "No document file provided"]),
              proc |-> NoProc]
      ELSE IF outcome = "throws"
        THEN [res |-> ResStatusJson(NewRes, 500,
                        [error |-> "Failed to process document upload",
                         details |-> "spawn"]),
              proc |-> SpawnThrew("python3", args)]
      ELSE [res |-> NewRes,
            proc |-> StdinWriteEnd(Spawn("python3", args, outcome), userInput)]

\* A 'close' handler that reports a fixed file name.
UploadOnCloseFixedName(rs, a, code, file) ==
  IF code = 0
    THEN ResStatusJson(rs, rs.statusCode,
           [success |-> TRUE,
            message |-> "Document processed and added to knowledge base successfully",
            filename |-> "document.pdf", size |-> file.size, output |-> Trim(a.output)])
    ELSE ResStatusJson(rs, 500,
           [success |-> FALSE, error |-> "Failed to process document for RAG",
            details |-> IF a.errorOutput # <<>> THEN a.errorOutput ELSE a.output,
            filename |-> file.originalname])

\* pythonProcess.on('close') of /upload-document
UploadOnClose(rs, a, code, file) ==
  IF code = 0
    THEN ResStatusJson(rs, rs.statusCode,
           [success |-> TRUE,
            message |-> "Document processed and added to knowledge base successfully",
            filename |-> file.originalname, size |-> file.size, output |-> Trim(a.output)])
    ELSE ResStatusJson(rs, 500,
           [success |-> FALSE, error |-> "Failed to process document for RAG",
            details |-> IF a.errorOutput # <<>> THEN a.errorOutput ELSE a.output,
            filename |-> file.originalname])

\* pythonProcess.on('error') of /upload-document
UploadOnError(rs, message) ==
  ResStatusJson(rs, 500, [success |-> FALSE, error |-> "Failed to start document processing",
                          details |-> message])

HttpInit ==
  /\ serverAlive = TRUE
  /\ request = [r \in Slots |-> NoRequest]
  /\ res = [r \in Slots |-> NewRes]
  /\ proc = [r \in Slots |-> NoProc]
  /\ acc = [r \in Slots |-> NoAcc]
  /\ clientGone = [r \in Slots |-> FALSE]
  /\ now = 0
  /\ health = <<>>

Platforms == {"darwin", "linux"}

NotRead == [read |-> FALSE]

\* main.ts before the 'ready' event, on the given platform
AppLaunching(os) ==
  /\ platform = os
  /\ appState = "launching"
  /\ servers = <<>>
  /\ electronServer = 0
  /\ serverPort = 0
  /\ windows = 0
  /\ portRead = NotRead
  /\ urlRead = NotRead
  /\ micAccess = NotRead

Init == HttpInit /\ AppLaunching("linux")

(***************************************************************************)
(* The actions of the HTTP side.                                           *)
(***************************************************************************)
Free(r) == serverAlive /\ request[r] = NoRequest

\* A request enters slot r and its route has run to the handler's return.
Handle(r, rq, result) ==
  /\ request' = [request EXCEPT ![r] = rq]
  /\ res' = [res EXCEPT ![r] = result.res]
  /\ proc' = [proc EXCEPT ![r] = result.proc]
  /\ acc' = [acc EXCEPT ![r] = NoAcc]
  /\ clientGone' = [clientGone EXCEPT ![r] = FALSE]
  /\ UNCHANGED <<serverAlive, appVars, healthVars>>

PostPrompt(r) ==
  /\ Free(r)
  /\ \E rq \in PromptRequests, outcome \in SpawnOutcomes :
       Handle(r, rq, PromptRoute(rq, outcome))

PostPromptAudio(r) ==
  /\ Free(r)
  /\ \E rq \in PromptAudioRequests, outcome \in SpawnOutcomes :
       Handle(r, rq, PromptAudioRoute(rq, outcome))

PostTranscribeAudio(r) ==
  /\ Free(r)
  /\ \E rq \in TranscribeRequests, outcome \in SpawnOutcomes :
       Handle(r, rq, TranscribeRoute(rq, outcome))

PostUploadDocument(r) ==
  /\ Free(r)
  /\ \E rq \in UploadRequests, outcome \in SpawnOutcomes :
       Handle(r, rq, UploadRoute(rq, outcome))

Streaming(ep) == ep \in {"/prompt", "/prompt-audio"}

\* A 'data' event of the child's stdout, and the handler registered for it.
StdoutData(r) ==
  /\ serverAlive
  /\ proc[r].state = "running"
  /\ proc[r].nOut + proc[r].nErr < MaxChunks
  /\ LET output == ChunkText(proc[r].nOut + 1)
         ep == request[r].endpoint
     IN  /\ proc' = [proc EXCEPT ![r].nOut = @ + 1]
         /\ res' = [res EXCEPT ![r] =
                      CASE ep = "/prompt" -> PromptOnStdout(@, output)
                        [] ep = "/prompt-audio" -> PromptAudioOnStdout(@, output)
                        [] OTHER -> @]
         /\ acc' = [acc EXCEPT ![r].output = IF Streaming(ep) THEN @ ELSE @ \o output]
  /\ UNCHANGED <<serverAlive, request, clientGone, appVars, healthVars>>

\* A 'data' event of the child's stderr: logged, and accumulated by the two JSON routes.
StderrData(r) ==
  /\ serverAlive
  /\ proc[r].state = "running"
  /\ proc[r].nOut + proc[r].nErr < MaxChunks
  /\ LET data == ErrText(proc[r].nErr + 1)
         ep == request[r].endpoint
     IN  /\ proc' = [proc EXCEPT ![r].nErr = @ + 1]
         /\ res' = [res EXCEPT ![r] = IF ep = "/prompt" THEN PromptOnStderr(@, data) ELSE @]
         /\ acc' = [acc EXCEPT ![r].errorOutput = IF Streaming(ep) THEN @ ELSE @ \o data]
  /\ UNCHANGED <<serverAlive, request, clientGone, appVars, healthVars>>

\* The codes a running child can end with: its own exit code, or null after a signal.
ExitCodes(p) == {0, 1} \cup (IF p.signalled THEN {NullCode} ELSE {})

\* The child has exited and its pipes are closed: the 'close' event and its handler.
ProcessClose(r) ==
  /\ serverAlive
  /\ proc[r].state = "running"
  /\ \E code \in ExitCodes(proc[r]) :
       LET ep == request[r].endpoint
       IN  /\ proc' = [proc EXCEPT ![r].state = "closed", ![r].code = code]
           /\ res' = [res EXCEPT ![r] =
                        CASE ep = "/prompt" -> PromptOnClose(@, code)
                          [] ep = "/prompt-audio" -> PromptAudioOnClose(@, code)
                          [] ep = "/transcribe-audio" -> TranscribeOnClose(@, acc[r], code)
                          [] OTHER -> UploadOnClose(@, acc[r], code, request[r].file)]
  /\ UNCHANGED <<serverAlive, request, acc, clientGone, appVars, healthVars>>

\* Whether the route registers a listener for the child's 'error' event.
HasErrorListener(ep) == ep # "/prompt"

\* The response after the 'error' listener of the route has run.
OnError(ep, rs) ==
  CASE ep = "/prompt-audio" -> PromptAudioOnError(rs, "spawn ENOENT")
    [] ep = "/transcribe-audio" -> TranscribeOnError(rs, "spawn ENOENT")
    [] ep = "/upload-document" -> UploadOnError(rs, "spawn ENOENT")
    [] OTHER -> rs

\* The next tick after a spawn that failed: node emits 'error' and then 'close'
\* (with the negated errno) on the child, in one callback. An 'error' event with no
\* listener is thrown; so is the second res.json of the JSON routes, whose 'close'
\* handler answers a response the 'error' handler has already sent. Neither is
\* caught, and no 'uncaughtException' handler is installed: plain node ends the
\* process, Electron's main process reports the error and carries on. The
\* streaming route's 'close' handler writes to the response its 'error' handler
\* has ended; whether that write's asynchronous error is raised depends on the
\* runtime.
SpawnFailed(r) ==
  /\ serverAlive
  /\ proc[r].state = "spawnFailed"
  /\ LET ep == request[r].endpoint
         answered == OnError(ep, res[r])
     IN  /\ proc' = [proc EXCEPT ![r].state = "closed", ![r].code = EnoentCode]
         /\ serverAlive' \in BOOLEAN
         /\ IF ~HasErrorListener(ep)
              THEN UNCHANGED res
            ELSE IF ep = "/prompt-audio"
              THEN res' = [res EXCEPT ![r] = PromptAudioOnClose(answered, EnoentCode)]
            ELSE IF ep = "/transcribe-audio"
              THEN res' = [res EXCEPT ![r] = TranscribeOnClose(answered, acc[r], EnoentCode)]
            ELSE res' = [res EXCEPT ![r] =
                           UploadOnClose(answered, acc[r], EnoentCode, request[r].file)]
  /\ UNCHANGED <<request, acc, clientGone, appVars, healthVars>>

\* The client's connection closes before the response has ended: the request's
\* 'close' event. Only /prompt-audio listens for it, and kills its child.
ClientDisconnect(r) ==
  /\ serverAlive
  /\ request[r] # NoRequest
  /\ ~clientGone[r]
  /\ ~res[r].ended
  /\ clientGone' = [clientGone EXCEPT ![r] = TRUE]
  /\ proc' = [proc EXCEPT ![r] = IF request[r].endpoint = "/prompt-audio" THEN Kill(@) ELSE @]
  /\ UNCHANGED <<serverAlive, request, res, acc, appVars, healthVars>>

\* Nothing more can happen to the request of slot r: the slot is taken by a later one.
Finished(r) ==
  /\ request[r] # NoRequest
  /\ res[r].ended \/ clientGone[r]
  /\ proc[r].state \notin {"running", "spawnFailed"}

Retire(r) ==
  /\ serverAlive
  /\ Finished(r)
  /\ request' = [request EXCEPT ![r] = NoRequest]
  /\ res' = [res EXCEPT ![r] = NewRes]
  /\ proc' = [proc EXCEPT ![r] = NoProc]
  /\ acc' = [acc EXCEPT ![r] = NoAcc]
  /\ clientGone' = [clientGone EXCEPT ![r] = FALSE]
  /\ UNCHANGED <<serverAlive, appVars, healthVars>>

Next ==
  \E r \in Slots :
    \/ PostPrompt(r)
    \/ PostPromptAudio(r)
    \/ PostTranscribeAudio(r)
    \/ PostUploadDocument(r)
    \/ StdoutData(r)
    \/ StderrData(r)
    \/ ProcessClose(r)
    \/ SpawnFailed(r)
    \/ ClientDisconnect(r)
    \/ Retire(r)

Spec == Init /\ [][Next]_vars

(***************************************************************************)
(* Requests in flight at the same time: each handler invocation has its    *)
(* own req, res and pythonProcess.                                         *)
(***************************************************************************)
ConcSlots == 1..MaxConc

\* Requests told apart by their prompt, and two /transcribe-audio requests.
ConcRequests ==
  {[endpoint |-> "/prompt", prompt |-> p, images |-> NoField, messages |-> NoField,
    file |-> NoFile] : p \in {"", "hi", "yo"}}
  \cup {[endpoint |-> "/transcribe-audio", file |-> f] :
          f \in {NoFile, [size |-> 10, mimetype |-> "audio/webm", originalname |-> "x"]}}

\* The router dispatches on the request's path.
Route(rq, outcome) ==
  CASE rq.endpoint = "/prompt" -> PromptRoute(rq, outcome)
    [] rq.endpoint = "/prompt-audio" -> PromptAudioRoute(rq, outcome)
    [] rq.endpoint = "/transcribe-audio" -> TranscribeRoute(rq, outcome)
    [] OTHER -> UploadRoute(rq, outcome)

ConcPost(r) ==
  /\ Free(r)
  /\ \E rq \in ConcRequests, outcome \in SpawnOutcomes : Handle(r, rq, Route(rq, outcome))

ConcInit ==
  /\ serverAlive = TRUE
  /\ request = [r \in ConcSlots |-> NoRequest]
  /\ res = [r \in ConcSlots |-> NewRes]
  /\ proc = [r \in ConcSlots |-> NoProc]
  /\ acc = [r \in ConcSlots |-> NoAcc]
  /\ clientGone = [r \in ConcSlots |-> FALSE]
  /\ now = 0
  /\ health = <<>>
  /\ AppLaunching("linux")

ConcNext ==
  \E r \in ConcSlots :
    \/ ConcPost(r)
    \/ StdoutData(r)
    \/ ProcessClose(r)
    \/ SpawnFailed(r)
    \/ ClientDisconnect(r)
    \/ Retire(r)

ConcSpec == ConcInit /\ [][ConcNext]_vars

\* Every child exits in the end, and node delivers its 'close' event to a process
\* that is still there to handle it.
ConcFairSpec ==
  ConcInit /\ [][ConcNext]_vars /\ \A r \in ConcSlots : WF_vars(ProcessClose(r))

(***************************************************************************)
(* GET /health.                                                            *)
(***************************************************************************)
\* A timestamp with its digits least significant first.
ToISOStringLeastFirst(t) == <<t % 2, (t \div 2) % 2, (t \div 4) % 2>>

\* Date.prototype.toISOString(): the instant as fixed-width, zero-padded digits,
\* most significant first (binary digits here, three of them).
ToISOString(t) == <<(t \div 4) % 2, (t \div 2) % 2, t % 2>>

\* router.get('/health'): res.json({ status: 'OK', timestamp: new Date().toISOString() })
HealthRoute(t) ==
  ResStatusJson(NewRes, NewRes.statusCode, [status |-> "OK", timestamp |-> ToISOString(t)])

\* A GET /health request is answered; the model keeps the last two answers.
GetHealth ==
  /\ serverAlive
  /\ health' = IF Len(health) < 2 THEN Append(health, HealthRoute(now))
                                  ELSE <<health[2], HealthRoute(now)>>
  /\ UNCHANGED <<httpVars, now, appVars>>

\* The system clock advances.
Tick ==
  /\ now < MaxClock
  /\ now' = now + 1
  /\ UNCHANGED <<httpVars, health, appVars>>

\* The health endpoint beside the requests of one other route.
HealthNext ==
  \/ GetHealth
  \/ Tick
  \/ \E r \in Slots :
       \/ PostTranscribeAudio(r)
       \/ StdoutData(r)
       \/ StderrData(r)
       \/ ProcessClose(r)
       \/ SpawnFailed(r)
       \/ Retire(r)

HealthSpec == Init /\ [][HealthNext]_vars

(***************************************************************************)
(* The Electron main process (src/main.ts) and ElectronServer.             *)
(***************************************************************************)
\* The ephemeral ports the operating system can hand out.
Ports == 1..MaxServers

ListeningPorts == {servers[i].port : i \in {j \in 1..Len(servers) : servers[j].state = "listening"}}

\* `http://localhost:${serverPort}`
ServerUrl(port) == <<"http://localhost:", port>>

\* createWindow up to its await: electronServer = new ElectronServer(), then
\* electronServer.start(), which calls app.listen(0, 'localhost', callback).
CreateWindowBegin ==
  /\ servers' = Append(servers, [state |-> "starting", port |-> 0])
  /\ electronServer' = Len(servers) + 1

\* ElectronServer.stop() of instance i: server.close() ends a listening server.
ServerStop(svs, i) ==
  IF i # 0 /\ svs[i].state = "listening" THEN [svs EXCEPT ![i].state = "closed"] ELSE svs

\* app.quit(): the 'before-quit' handler stops electronServer, then the app quits.
AppQuit(svs) ==
  /\ appState' = "quit"
  /\ servers' = ServerStop(svs, electronServer)

\* app.on('ready', createWindow)
AppReady ==
  /\ appState = "launching"
  /\ appState' = "running"
  /\ CreateWindowBegin
  /\ UNCHANGED <<platform, serverPort, windows, portRead, urlRead, micAccess, httpVars, healthVars>>

\* The listen callback of server i finds an address: start() resolves with the
\* port, and createWindow goes on: it records the port and opens the window.
StartResolved(i) ==
  /\ appState = "running"
  /\ servers[i].state = "starting"
  /\ \E port \in Ports \ ListeningPorts :
       /\ servers' = [servers EXCEPT ![i] = [state |-> "listening", port |-> port]]
       /\ serverPort' = port
  /\ windows' = windows + 1
  /\ UNCHANGED <<platform, appState, electronServer, portRead, urlRead, micAccess, httpVars, healthVars>>

\* The listen callback finds no address: start() rejects, createWindow's catch
\* calls app.quit() and returns.
StartRejected(i) ==
  /\ appState = "running"
  /\ servers[i].state = "starting"
  /\ AppQuit([servers EXCEPT ![i].state = "failed"])
  /\ UNCHANGED <<platform, electronServer, serverPort, windows, portRead, urlRead, micAccess, httpVars, healthVars>>

\* app.listen fails (the address cannot be resolved or bound): the http server
\* emits 'error', for which start() registers no listener, so the error is thrown
\* as an uncaught exception and the promise of start() is never settled:
\* createWindow never resumes. Electron's main process reports an uncaught
\* exception and carries on; a plain node process ends.
StartErrored(i) ==
  /\ appState = "running"
  /\ servers[i].state = "starting"
  /\ servers' = [servers EXCEPT ![i].state = "errored"]
  /\ appState' \in {"running", "crashed"}
  /\ UNCHANGED <<platform, electronServer, serverPort, windows, portRead, urlRead, micAccess, httpVars, healthVars>>

\* app.on('activate') (macOS: the dock icon is clicked): with no window open,
\* createWindow runs again.
Activate ==
  /\ appState = "running"
  /\ platform = "darwin"
  /\ windows = 0
  /\ Len(servers) < MaxServers
  /\ CreateWindowBegin
  /\ UNCHANGED <<platform, appState, serverPort, windows, portRead, urlRead, micAccess, httpVars, healthVars>>

\* The user closes a window; closing the last one fires 'window-all-closed',
\* which quits the application except on macOS.
WindowClosed ==
  /\ appState = "running"
  /\ windows > 0
  /\ windows' = windows - 1
  /\ IF windows = 1 /\ platform # "darwin"
       THEN AppQuit(servers)
       ELSE UNCHANGED <<appState, servers>>
  /\ UNCHANGED <<platform, electronServer, serverPort, portRead, urlRead, micAccess, httpVars, healthVars>>

\* The user quits the application (menu, Cmd+Q).
UserQuit ==
  /\ appState = "running"
  /\ AppQuit(servers)
  /\ UNCHANGED <<platform, electronServer, serverPort, windows, portRead, urlRead, micAccess, httpVars, healthVars>>

\* ipcMain.handle('get-server-port'), invoked by a window's renderer
GetServerPort ==
  /\ appState = "running"
  /\ windows > 0
  /\ portRead' = [read |-> TRUE, value |-> serverPort]
  /\ UNCHANGED <<platform, appState, servers, electronServer, serverPort, windows, urlRead, micAccess, httpVars, healthVars>>

\* ipcMain.handle('get-server-url'), invoked by a window's renderer
GetServerUrl ==
  /\ appState = "running"
  /\ windows > 0
  /\ urlRead' = [read |-> TRUE, value |-> ServerUrl(serverPort)]
  /\ UNCHANGED <<platform, appState, servers, electronServer, serverPort, windows, portRead, micAccess, httpVars, healthVars>>

\* What systemPreferences.askForMediaAccess('microphone') can do.
OsAnswers == {"granted", "denied", "throws"}

\* A check that asks the operating system on every platform.
CheckMediaPermissionsAlwaysAsks(os, answer) ==
  [prompted |-> TRUE, threw |-> answer = "throws", microphone |-> answer = "granted"]

\* checkMediaPermissions(): darwin asks the operating system, other platforms
\* return { microphone: true } without asking.
CheckMediaPermissions(os, answer) ==
  IF os = "darwin"
    THEN [prompted |-> TRUE, threw |-> answer = "throws", microphone |-> answer = "granted"]
    ELSE [prompted |-> FALSE, threw |-> FALSE, microphone |-> TRUE]

\* The object the 'request-microphone-access' handler returns.
MicrophoneAccessResult(permissions) ==
  IF permissions.threw
    THEN [type |-> "object", success |-> FALSE, microphone |-> FALSE,
          message |-> "Error requesting microphone access"]
    ELSE [type |-> "object", success |-> TRUE, microphone |-> permissions.microphone,
          message |-> IF permissions.microphone THEN "Microphone access granted"
                                                ELSE "Microphone access denied"]

\* ipcMain.handle('request-microphone-access'), invoked by a window's renderer
RequestMicrophoneAccess ==
  /\ appState = "running"
  /\ windows > 0
  /\ \E answer \in OsAnswers :
       LET permissions == CheckMediaPermissions(platform, answer)
       IN  micAccess' = [read |-> TRUE,
                         prompted |-> permissions.prompted,
                         answer |-> IF permissions.prompted THEN answer ELSE "none",
                         value |-> MicrophoneAccessResult(permissions)]
  /\ UNCHANGED <<platform, appState, servers, electronServer, serverPort, windows, portRead, urlRead, httpVars, healthVars>>

AppInit == HttpInit /\ \E os \in Platforms : AppLaunching(os)

AppNext ==
  \/ AppReady
  \/ \E i \in 1..Len(servers) : StartResolved(i)
  \/ \E i \in 1..Len(servers) : StartRejected(i)
  \/ \E i \in 1..Len(servers) : StartErrored(i)
  \/ Activate
  \/ WindowClosed
  \/ UserQuit
  \/ GetServerPort
  \/ GetServerUrl
  \/ RequestMicrophoneAccess

AppSpec == AppInit /\ [][AppNext]_vars

(***************************************************************************)
(* Properties.                                                             *)
(***************************************************************************)
\* The chunk events of a child's first n output chunks, in emission order.
ChunkEvents(n) == [k \in 1..n |-> SseFrame([type |-> "chunk", content |-> ChunkText(k)])]

IsComplete(item) == item.kind = "sse" /\ item.event.type = "complete"
IsError(item) == item.kind = "sse" /\ item.event.type = "error"

OnPrompt(r) == request[r].endpoint = "/prompt"

\* The child of slot r was started and its 'close' event has been handled.
ChildClosed(r) == proc[r].state = "closed" /\ proc[r].code # EnoentCode

\* C1: once the child of an accepted POST /prompt request with a non-empty prompt
\* has closed, what was written to the response is the chunk events of the child's
\* output chunks, in emission order, followed by exactly one complete event, which
\* is the last thing written.
C1_ChunkEventsThenOneComplete ==
  \A r \in Slots :
    (OnPrompt(r) /\ request[r].prompt # "" /\ ChildClosed(r))
      => res[r].body = ChunkEvents(proc[r].nOut) \o <<SseFrame(CompleteEvent(proc[r].code))>>

\* prompt empty, images array empty, no audio file attached
AllEmpty(rq) ==
  /\ rq.prompt = ""
  /\ ParseField(rq.images).ok /\ ParseField(rq.images).value = <<>>
  /\ rq.file = NoFile

\* answered 400 with a JSON error, never in event-stream mode, no child spawned
Rejected400(r) ==
  /\ res[r].ended
  /\ res[r].statusCode = 400
  /\ res[r].contentType = "application/json"
  /\ Len(res[r].body) = 1 /\ res[r].body[1].kind = "json"
  /\ proc[r].state = "none"

\* accepted: the response is switched to event-stream mode and spawn is called
AcceptedToSpawn(r) ==
  /\ res[r].contentType = "text/event-stream"
  /\ proc[r].state # "none"

\* the upload is within the route's limit and the images and messages fields parse
WellFormed(rq) ==
  /\ ~ExceedsLimit(rq.file, UploadFileSize)
  /\ ParseField(rq.images).ok
  /\ ParseField(rq.messages).ok

C3_DisconnectKillsChild ==
  \A r \in Slots :
    (OnPrompt(r) /\ clientGone[r] /\ proc[r].state = "running") => proc[r].signalled

\* The start of the child of slot r has failed and the failure has been reported
\* (spawn threw, or the child's 'error' event has fired).
StartFailed(r) == proc[r].state = "threw" \/ (proc[r].state = "closed" /\ proc[r].code = EnoentCode)

\* C4: a POST /prompt request whose backend could not be started is answered with
\* a 5xx JSON response that carries no event-stream header and no event.
C4_StartFailureAnswered5xxJson ==
  \A r \in Slots :
    (OnPrompt(r) /\ StartFailed(r)) =>
      /\ res[r].ended
      /\ res[r].statusCode >= 500
      /\ res[r].contentType = "application/json"
      /\ \A i \in 1..Len(res[r].body) : res[r].body[i].kind = "json"

\* The child of slot r was started, has exited with a non-zero code, and the
\* response has ended.
RuntimeFailure(r) == ChildClosed(r) /\ proc[r].code # 0 /\ res[r].ended

\* C5 as stated: when the backend of a POST /prompt request exits with a non-zero
\* code, an error event is written to the stream before the response is closed.
C5_NonZeroExitWritesErrorEvent ==
  \A r \in Slots :
    (OnPrompt(r) /\ RuntimeFailure(r)) =>
      \E i \in 1..Len(res[r].body) : IsError(res[r].body[i])

\* C5 as amended: when the backend of a POST /prompt request exits with a non-zero
\* code, the last thing written before the response is closed is a complete event
\* carrying that code, and no error event is written.
C5_NonZeroExitWritesCompleteWithCode ==
  \A r \in Slots :
    (OnPrompt(r) /\ RuntimeFailure(r)) =>
      /\ res[r].body # <<>>
      /\ res[r].body[Len(res[r].body)] = SseFrame([type |-> "complete", code |-> proc[r].code])
      /\ \A i \in 1..Len(res[r].body) : ~IsError(res[r].body[i])

\* C5's case: the child of a POST /prompt request has exited with code 1.
C5_Witness ==
  \E r \in Slots : OnPrompt(r) /\ RuntimeFailure(r) /\ proc[r].code = 1

\* C6: what a POST /prompt response holds besides its complete event is exactly
\* one framed chunk event per output chunk of the child, carrying that chunk.
C6_OneFramedChunkEventPerChunk ==
  \A r \in Slots :
    (OnPrompt(r) /\ proc[r].state \in {"running", "closed"} /\ proc[r].code # EnoentCode) =>
      SelectSeq(res[r].body, LAMBDA item : ~IsComplete(item)) = ChunkEvents(proc[r].nOut)

OnUpload(r) == request[r].endpoint = "/upload-document"

\* C7: a POST /upload-document request whose file declares a content type other
\* than application/pdf is rejected with the validation error and has no child.
C7_NonPdfRejectedBeforeSpawn ==
  \A r \in Slots :
    (OnUpload(r) /\ request[r].file # NoFile /\ request[r].file.mimetype # "application/pdf") =>
      /\ res[r].ended
      /\ res[r].statusCode >= 400
      /\ res[r].body = <<[kind |-> "html", message |-> "Only PDF files are allowed"]>>
      /\ proc[r].state = "none"

\* C7's case: a text/plain document within the size limit has been uploaded.
C7_Witness ==
  \E r \in Slots :
    /\ OnUpload(r)
    /\ request[r].file.mimetype = "text/plain"
    /\ request[r].file.size <= DocumentFileSize
    /\ res[r].ended

\* The size limit of the route that handles the request of slot r.
LimitOf(r) == IF OnUpload(r) THEN DocumentFileSize
              ELSE IF request[r].endpoint = "/transcribe-audio" THEN AudioFileSize
              ELSE UploadFileSize

\* C8: a request whose attachment is larger than its route's limit (20 MiB for a
\* document, 10 MiB for audio) is rejected and has no child; a child exists only
\* for a request whose attachment is within the limit.
C8_OversizedRejectedBeforeSpawn ==
  \A r \in Slots :
    request[r] # NoRequest =>
      /\ request[r].file.size > LimitOf(r) =>
           res[r].ended /\ res[r].statusCode >= 400 /\ proc[r].state = "none"
      /\ proc[r].state # "none" => request[r].file.size <= LimitOf(r)

\* C8's case: a 21 MiB PDF has been uploaded, or 11 MiB of audio sent to
\* /transcribe-audio.
C8_Witness ==
  \E r \in Slots :
    /\ res[r].ended
    /\ \/ OnUpload(r) /\ request[r].file.mimetype = "application/pdf" /\ request[r].file.size = 21
       \/ request[r].endpoint = "/transcribe-audio" /\ request[r].file.size = 11

\* A failure has arisen while handling the request of slot r: a field that is not
\* valid JSON, or a child that could not be started.
HandlingFailed(r) ==
  /\ request[r] # NoRequest
  /\ \/ StartFailed(r)
     \/ /\ OnPrompt(r)
        /\ ~ExceedsLimit(request[r].file, UploadFileSize)
        /\ ~ParseField(request[r].images).ok \/ ~ParseField(request[r].messages).ok

\* answered 500 with one JSON body that carries an error message
Answered500Json(r) ==
  /\ res[r].ended
  /\ res[r].statusCode = 500
  /\ Len(res[r].body) = 1
  /\ res[r].body[1].kind = "json"
  /\ "error" \in DOMAIN res[r].body[1].json

\* C9: no failure while handling a request terminates the server process, and
\* every such failure is answered with a 500 JSON response carrying a message.
C9_ServerSurvivesEveryFailure ==
  /\ serverAlive
  /\ \A r \in Slots : HandlingFailed(r) => Answered500Json(r)

\* C10: at most one server instance is ever started.
C10_OneServerInstance == Len(servers) <= 1

\* The start of server i ends in failure in this step: start() rejects, or
\* app.listen reports an error.
StartFails(i) ==
  /\ i <= Len(servers')
  /\ servers[i].state = "starting"
  /\ servers'[i].state \in {"failed", "errored"}

\* C11: a step that opens a window is the step in which a server's start has
\* succeeded and its port is recorded; a step in which a server's start fails ends
\* the application without opening a window; and after a failed start no further
\* server is started.
C11_WindowOnlyAfterStartElseQuit ==
  [][/\ windows' > windows =>
          \E i \in 1..Len(servers) :
            /\ servers[i].state = "starting"
            /\ servers'[i].state = "listening"
            /\ serverPort' = servers'[i].port
     /\ \A i \in 1..Len(servers) :
          StartFails(i) => appState' \in {"quit", "crashed"} /\ windows' = windows
     /\ (\E i \in 1..Len(servers) : servers[i].state \in {"failed", "errored"}) =>
          Len(servers') = Len(servers)]_vars

\* C12: once the application has begun shutdown and 'before-quit' has been
\* handled, no server that was started is listening.
C12_QuitStopsEveryServer ==
  appState = "quit" => \A i \in 1..Len(servers) : servers[i].state # "listening"

\* C13: what the port accessor returned is a recorded port and still the recorded
\* port (the port is written once, before any read), and the URL accessor returns
\* http://localhost:<the port the port accessor returns>.
C13_PortWrittenOnceReadAfter ==
  /\ portRead.read => portRead.value # 0 /\ portRead.value = serverPort
  /\ urlRead.read => serverPort # 0 /\ urlRead.value = ServerUrl(serverPort)
  /\ (portRead.read /\ urlRead.read) => urlRead.value = ServerUrl(portRead.value)

\* C14 as stated: request-microphone-access returns a boolean, on darwin the
\* answer of the permission prompt, elsewhere true without any prompt.
C14_MicrophoneAccessReturnsBoolean ==
  micAccess.read =>
    /\ micAccess.value.type = "boolean"
    /\ platform = "darwin" => micAccess.prompted
    /\ platform # "darwin" => ~micAccess.prompted

\* C14 as amended: request-microphone-access returns an object whose microphone
\* field is, on darwin, the answer of the permission prompt (with success true;
\* success false and microphone false when the prompt fails), and elsewhere true
\* with success true and without any prompt.
C14_MicrophoneFieldIsTheAnswer ==
  micAccess.read =>
    /\ micAccess.value.type = "object"
    /\ platform = "darwin" =>
         /\ micAccess.prompted
         /\ micAccess.value.microphone = (micAccess.answer = "granted")
         /\ micAccess.value.success = (micAccess.answer # "throws")
    /\ platform # "darwin" =>
         /\ ~micAccess.prompted
         /\ micAccess.value.microphone
         /\ micAccess.value.success

\* C14's case: on darwin the user has denied the prompt of a request.
C14_Witness ==
  micAccess.read /\ platform = "darwin" /\ micAccess.answer = "denied"

OnTranscribe(r) == request[r].endpoint = "/transcribe-audio"

\* C15: a POST /transcribe-audio request with no file is answered 400 with the
\* body {error: "No audio file provided"} and has no child; a POST
\* /upload-document request with no file is answered 400 with the body
\* {error: "No document file provided"} and has no child.
C15_NoFileAnswered400 ==
  \A r \in Slots :
    ((OnTranscribe(r) \/ OnUpload(r)) /\ request[r].file = NoFile) =>
      /\ res[r].ended
      /\ res[r].statusCode = 400
      /\ res[r].contentType = "application/json"
      /\ res[r].body =
           <<[kind |-> "json",
              json |-> [error |-> IF OnTranscribe(r) THEN "No audio file provided"
                                                     ELSE "No document file provided"]]>>
      /\ proc[r].state = "none"

\* C15's case: a POST /transcribe-audio request with no file has been answered.
C15_Witness ==
  \E r \in Slots : OnTranscribe(r) /\ request[r].file = NoFile /\ res[r].ended

\* spawn has returned a child for the request of slot r
ChildSpawned(r) == proc[r].state \in {"running", "spawnFailed", "closed"}

\* C16: for a POST /upload-document request for which a child was spawned, nothing
\* is sent before the child has closed; after a close with code 0 the response is
\* 200 with success true and the uploaded file's name and size; after a close with
\* another code it is 500 with success false.
C16_UploadAnsweredAfterClose ==
  \A r \in Slots :
    (OnUpload(r) /\ ChildSpawned(r)) =>
      /\ proc[r].state # "closed" => ~res[r].headersSent /\ res[r].body = <<>>
      /\ proc[r].state = "closed" =>
           /\ res[r].ended
           /\ Len(res[r].body) = 1
           /\ res[r].body[1].kind = "json"
           /\ IF proc[r].code = 0
                THEN /\ res[r].statusCode = 200
                     /\ res[r].body[1].json.success
                     /\ res[r].body[1].json.filename = request[r].file.originalname
                     /\ res[r].body[1].json.size = request[r].file.size
                ELSE /\ res[r].statusCode = 500
                     /\ ~res[r].body[1].json.success

\* C16's case: the child of a POST /upload-document request has exited with code 0.
C16_Witness ==
  \E r \in Slots : OnUpload(r) /\ ChildClosed(r) /\ proc[r].code = 0 /\ res[r].ended

\* C17: on /transcribe-audio and /upload-document, a child that has exited with a
\* non-zero code or has written to its error stream is answered with a 5xx JSON
\* failure response.
C17_RuntimeFailureAnswered5xx ==
  \A r \in Slots :
    ((OnTranscribe(r) \/ OnUpload(r)) /\ ChildClosed(r)
       /\ (proc[r].code # 0 \/ proc[r].nErr > 0)) =>
      /\ res[r].ended
      /\ res[r].statusCode >= 500
      /\ Len(res[r].body) = 1
      /\ res[r].body[1].kind = "json"
      /\ ~res[r].body[1].json.success

\* C20: every child any endpoint has spawned was given its payload on its input
\* stream, which was then closed, before any of its output is handled, and was
\* given nothing but the script path on its command line.
C20_PayloadOnStdinThenClosed ==
  \A r \in Slots :
    proc[r].state \in {"running", "closed"} =>
      /\ Len(proc[r].stdin) = 1
      /\ proc[r].stdinEnded
      /\ proc[r].args = <<"PYTHON_SCRIPT_PATH">>

\* a is not later than b: ISO timestamps are compared digit by digit
RECURSIVE IsoLeq(_, _)
IsoLeq(a, b) ==
  \/ a = <<>>
  \/ Head(a) < Head(b)
  \/ Head(a) = Head(b) /\ IsoLeq(Tail(a), Tail(b))

\* C18: every GET /health response is 200 with status "OK", the timestamp of a
\* response is not earlier than that of the response before it, and answering
\* GET /health changes no request, response or child of the server.
C18_HealthIdempotent ==
  /\ [](/\ \A i \in 1..Len(health) :
            /\ health[i].statusCode = 200
            /\ health[i].body[1].json.status = "OK"
        /\ Len(health) = 2 =>
             IsoLeq(health[1].body[1].json.timestamp, health[2].body[1].json.timestamp))
  /\ [][health' # health => UNCHANGED httpVars]_vars

\* C18's case: two GET /health requests have been answered at different instants
\* while the child of another request was running.
C18_Witness ==
  /\ Len(health) = 2
  /\ health[1].body[1].json.timestamp # health[2].body[1].json.timestamp
  /\ \E r \in Slots : proc[r].state = "running"

\* The request of slot r passes its route's validation.
PassesValidation(r) ==
  IF OnPrompt(r) THEN WellFormed(request[r]) /\ ~AllEmpty(request[r])
  ELSE request[r].file # NoFile /\ request[r].file.size <= LimitOf(r)

\* The payload the route builds from the request of slot r.
PayloadOf(r) ==
  IF OnPrompt(r)
    THEN JsonStringify(PromptInputData(request[r], ParseField(request[r].images).value,
                                       ParseField(request[r].messages).value))
    ELSE JsonStringify([audio_to_transcribe |-> Base64(request[r].file)])

\* The output chunks written to the response of slot r, as they were written.
RawChunks(n) == [k \in 1..n |-> [kind |-> "raw", text |-> ChunkText(k)]]

\* C19: with requests in flight at the same time, a request has a child exactly
\* when it passed validation, the child of a request was given that request's own
\* payload, and the response of a /prompt request holds the output chunks of its
\* own child, in order, followed after the child's close by one complete event
\* with that child's exit code.
C19_OneChildPerRequestOwnOutput ==
  \A r \in DOMAIN request :
    request[r] # NoRequest =>
      /\ PassesValidation(r) <=> proc[r].state # "none"
      /\ proc[r].state \in {"running", "spawnFailed", "closed"} =>
           proc[r].stdin = <<PayloadOf(r)>>
      /\ (OnPrompt(r) /\ proc[r].state = "running") =>
           res[r].body = RawChunks(proc[r].nOut)
      /\ (OnPrompt(r) /\ ChildClosed(r)) =>
           res[r].body = RawChunks(proc[r].nOut) \o <<SseFrame(CompleteEvent(proc[r].code))>>

\* C19's case: two /prompt requests with different prompts are in flight, their
\* children have produced different numbers of chunks, and one of them has closed
\* with code 1 while the other is running.
C19_Witness ==
  \E r1, r2 \in DOMAIN request :
    /\ OnPrompt(r1) /\ OnPrompt(r2)
    /\ request[r1].prompt = "hi" /\ request[r2].prompt = "yo"
    /\ proc[r1].state = "closed" /\ proc[r1].code = 1 /\ proc[r1].nOut = 1
    /\ proc[r2].state = "running" /\ proc[r2].nOut = 2

\* C21: every child spawned by /prompt, /transcribe-audio or /upload-document is
\* started with the interpreter of the virtual environment and the script path as
\* its only argument.
C21_SameExecutableAndScript ==
  \A r \in Slots :
    ((OnPrompt(r) \/ OnTranscribe(r) \/ OnUpload(r)) /\ proc[r].state # "none") =>
      /\ proc[r].command = "PYTHON_EXECUTABLE"
      /\ proc[r].args = <<"PYTHON_SCRIPT_PATH">>

\* C22: on POST /prompt nothing the child wrote to its error stream is in the
\* response: the response holds one item per output chunk and, once the child has
\* closed, the complete event with the child's exit code as its last item,
\* however much the child wrote to its error stream.
C22_StderrOnlyLogged ==
  \A r \in Slots :
    (OnPrompt(r) /\ proc[r].state \in {"running", "closed"} /\ proc[r].code # EnoentCode) =>
      /\ \A i \in 1..Len(res[r].body) : \A k \in 1..proc[r].nErr :
           ~(res[r].body[i].kind = "raw" /\ res[r].body[i].text = ErrText(k))
      /\ Len(res[r].body) = proc[r].nOut + (IF proc[r].state = "closed" THEN 1 ELSE 0)
      /\ proc[r].state = "closed" =>
           res[r].body[Len(res[r].body)] = SseFrame([type |-> "complete", code |-> proc[r].code])

\* C22's case: the child of a POST /prompt request has written to its error
\* stream and has closed.
C22_Witness ==
  \E r \in Slots : OnPrompt(r) /\ ChildClosed(r) /\ proc[r].nErr > 0 /\ proc[r].nOut > 0

\* The first n output chunks of a child, concatenated in emission order.
RECURSIVE OutputOf(_)
OutputOf(n) == IF n = 0 THEN <<>> ELSE OutputOf(n - 1) \o ChunkText(n)

\* The first n error-stream chunks of a child, concatenated in emission order.
RECURSIVE ErrorOutputOf(_)
ErrorOutputOf(n) == IF n = 0 THEN <<>> ELSE ErrorOutputOf(n - 1) \o ErrText(n)

\* C23: once the child of a POST /transcribe-audio request has closed, the
\* response is success true exactly when the exit code is 0, and then
\* transcribedText is the trimmed concatenation of the child's output chunks; on
\* another exit code it is 500 and details is the accumulated error-stream content
\* if there is any and the accumulated output otherwise.
C23_TranscribeResponse ==
  \A r \in Slots :
    (OnTranscribe(r) /\ ChildClosed(r)) =>
      /\ res[r].ended
      /\ Len(res[r].body) = 1
      /\ res[r].body[1].kind = "json"
      /\ res[r].body[1].json.success = (proc[r].code = 0)
      /\ IF proc[r].code = 0
           THEN /\ res[r].statusCode = 200
                /\ res[r].body[1].json.transcribedText = Trim(OutputOf(proc[r].nOut))
           ELSE /\ res[r].statusCode = 500
                /\ res[r].body[1].json.details =
                     IF proc[r].nErr > 0 THEN ErrorOutputOf(proc[r].nErr)
                                         ELSE OutputOf(proc[r].nOut)

\* C23's case: the child of a POST /transcribe-audio request has written to both
\* streams and has exited with code 1.
C23_Witness ==
  \E r \in Slots :
    OnTranscribe(r) /\ ChildClosed(r) /\ proc[r].code = 1 /\ proc[r].nErr > 0 /\ proc[r].nOut > 0

\* The envelope of a /prompt request, from its own fields alone.
EnvelopeOf(rq) ==
  [json |-> [prompt |-> rq.prompt,
             images |-> ParseField(rq.images).value,
             messages |-> ParseField(rq.messages).value,
             audioBuffer |-> IF rq.file = NoFile THEN [null |-> TRUE]
                             ELSE [base64 |-> <<rq.file.originalname, rq.file.size>>]]]

\* C24: whatever requests the server has handled before, the payload handed to the
\* child of a POST /prompt request is the envelope of that request's own fields:
\* prompt, images and messages in their given order, the attachment in base64 or
\* null.
C24_PayloadFromRequestAlone ==
  \A r \in Slots :
    (OnPrompt(r) /\ ChildSpawned(r)) => proc[r].stdin = <<EnvelopeOf(request[r])>>

\* C24's case: a POST /prompt request with a conversation history and an audio
\* attachment has a running child.
C24_Witness ==
  \E r \in Slots :
    /\ OnPrompt(r)
    /\ proc[r].state = "running"
    /\ ParseField(request[r].messages).value = <<"m1", "m2">>
    /\ request[r].file # NoFile

\* C25: on /transcribe-audio and /upload-document no handler sends a response
\* for a request whose response another handler has already sent.
C25_OneResponsePerRequest ==
  \A r \in Slots : (OnTranscribe(r) \/ OnUpload(r)) => ~res[r].sendAfterSent

\* C26: on the streaming endpoints no handler writes to a response that has been
\* ended.
C26_NoWriteAfterEnd ==
  \A r \in Slots : Streaming(request[r].endpoint) => ~res[r].writeAfterEnd

\* The response of a POST /prompt request for which a child was spawned has ended
\* only if that child has closed.
EndedOnlyAfterClose ==
  \A r \in DOMAIN request :
    (OnPrompt(r) /\ ChildSpawned(r) /\ res[r].ended) => proc[r].state = "closed"

====
